---------------------------- MODULE Spec2Model ----------------------------
(***************************************************************************)
(* Model of concrete.py, a library of ACI 318 reinforced-concrete          *)
(* formulas.  Every function of the library is pure; the state of the      *)
(* model is the last call made to the library: the function called, its    *)
(* arguments and what the call produced (a returned number or a raised     *)
(* Python exception).                                                      *)
(*                                                                         *)
(* Numbers.  Python computes in binary floating point; the model computes  *)
(* in exact arithmetic.  A number is a reduced fraction <<n, d>> with      *)
(* d > 0.  math.sqrt is exact on the arguments q^2 and 10*q^2 (q a         *)
(* fraction), its value being the surd q*sqrt(k), k \in {1, 10}, written   *)
(* [q |-> q, k |-> k]; the arguments of the functions that take a square   *)
(* root are drawn from that domain.  Rounding to the nearest double and    *)
(* the IEEE values nan, inf and -0.0 are not modelled.                     *)
(***************************************************************************)
EXTENDS Integers, Sequences, FiniteSets, TLC

VARIABLES fn, args, ret

vars == <<fn, args, ret>>

-----------------------------------------------------------------------------
(* Bounds of the input grids. *)

MaxFcK     == 18   \* fc in psi: 500*k, k \in -1..MaxFcK
MaxKsiJ    == 19   \* fc in ksi: j/2, j \in -1..MaxKsiJ
MaxRoot    == 4    \* fc for the square-root functions: built from s^2, s \in 0..MaxRoot
MaxStrainK == 30   \* steel strain: k/10000, k \in -MaxStrainK..MaxStrainK
MaxDist    == 6    \* distances dDist, cDist: -MaxDist..MaxDist
MaxEcuK    == 3    \* ecu: k/1000, k \in -MaxEcuK..MaxEcuK
MaxNuK     == 3    \* Nu: 200000*k, k \in -MaxNuK..MaxNuK
MaxAK      == 8    \* aDist argument of cDist: k/2, k \in 0..MaxAK

-----------------------------------------------------------------------------
(* Exact arithmetic on fractions: Python's +, -, *, /, <, <=, abs.         *)

RECURSIVE GCD(_, _)
GCD(a, b) == IF b = 0 THEN a ELSE GCD(b, a % b)

IAbs(i) == IF i < 0 THEN -i ELSE i

Norm(n, d) ==
    LET g == GCD(IAbs(n), IAbs(d))
        s == IF d < 0 THEN -1 ELSE 1
    IN  <<s * (n \div g), s * (d \div g)>>

R(i) == <<i, 1>>

Frac(n, d) == Norm(n, d)

Num(x) == x[1]
Den(x) == x[2]

RAdd(x, y) == Norm(Num(x) * Den(y) + Num(y) * Den(x), Den(x) * Den(y))

RNeg(x) == <<-Num(x), Den(x)>>

RSub(x, y) == RAdd(x, RNeg(y))

RMul(x, y) ==
    LET a == Norm(Num(x), Den(y))
        b == Norm(Num(y), Den(x))
    IN  Norm(Num(a) * Num(b), Den(a) * Den(b))

RIsZero(x) == Num(x) = 0

\* x / y for y # 0; the callers raise ZeroDivisionError before dividing by 0
RDiv(x, y) == RMul(x, Norm(Den(y), Num(y)))

RLt(x, y) == Num(x) * Den(y) < Num(y) * Den(x)

RLe(x, y) == Num(x) * Den(y) <= Num(y) * Den(x)

RAbs(x) == <<IAbs(Num(x)), Den(x)>>

-----------------------------------------------------------------------------
(* math.sqrt and math.copysign.                                            *)

RECURSIVE ISqrt(_)
ISqrt(n) ==
    IF n < 2 THEN n
    ELSE LET s == 2 * ISqrt(n \div 4)
         IN  IF (s + 1) * (s + 1) <= n THEN s + 1 ELSE s

IsSquare(n) == ISqrt(n) * ISqrt(n) = n

Surd(q, k) == IF RIsZero(q) THEN [q |-> q, k |-> 1] ELSE [q |-> q, k |-> k]

\* math.sqrt(x) for x = q^2 or x = 10*q^2, x >= 0
sqrt(x) ==
    LET p == Num(x) * Den(x)
    IN  IF IsSquare(p)
        THEN Surd(Frac(ISqrt(p), Den(x)), 1)
        ELSE Surd(Frac(ISqrt(10 * p), 10 * Den(x)), 10)

\* fraction * surd
SScale(x, s) == Surd(RMul(x, s.q), s.k)

\* surd * surd
SMul(s, t) ==
    IF s.k = t.k
    THEN Surd(RMul(RMul(s.q, t.q), R(s.k)), 1)
    ELSE Surd(RMul(s.q, t.q), 10)

SIsNeg(s) == Num(s.q) < 0

\* max(s, 0)
SMax0(s) == IF SIsNeg(s) THEN Surd(R(0), 1) ELSE s

\* math.copysign(x, y): the magnitude of x with the sign of y
copysign(x, y) == IF Num(y) < 0 THEN RNeg(RAbs(x)) ELSE RAbs(x)

-----------------------------------------------------------------------------
(* What a call produces.                                                   *)

Ok(v) == [tag |-> "ok", val |-> v]

Raise(e) == [tag |-> "raise", exc |-> e]

\* the call has not run yet
Pending == [tag |-> "pending"]


-----------------------------------------------------------------------------
(* Module-level defaults of the library.                                   *)

DEFAULT_ES == 29000000

DEFAULT_FY == 60000

DEFAULT_ECU == Frac(-3, 1000)

\* the default "wc: float = None" of Ec
None == <<>>

-----------------------------------------------------------------------------
(* The functions of the library, in exact arithmetic.                      *)

\* beta1 with the interpolation taken per psi instead of per 1000 psi
beta1_SlopePerPsi(fc) ==
    LET f == IF RLt(fc, R(10)) THEN RMul(fc, R(1000)) ELSE fc
    IN  IF RLe(f, R(4000)) THEN Ok(Frac(85, 100))
        ELSE IF RLe(R(8000), f) THEN Ok(Frac(65, 100))
        ELSE Ok(RSub(Frac(85, 100), RMul(Frac(5, 100), RSub(f, R(4000)))))

\* beta1 without the branch that holds the factor at 0.65 from 8000 psi on
beta1_NoLowerLimit(fc) ==
    LET f == IF RLt(fc, R(10)) THEN RMul(fc, R(1000)) ELSE fc
    IN  IF RLe(f, R(4000)) THEN Ok(Frac(85, 100))
        ELSE Ok(RSub(Frac(85, 100),
                     RDiv(RMul(Frac(5, 100), RSub(f, R(4000))), R(1000))))

beta1(fc) ==
    LET f == IF RLt(fc, R(10)) THEN RMul(fc, R(1000)) ELSE fc
    IN  IF RLe(f, R(4000)) THEN Ok(Frac(85, 100))
        ELSE IF RLe(R(8000), f) THEN Ok(Frac(65, 100))
        ELSE Ok(RSub(Frac(85, 100),
                     RDiv(RMul(Frac(5, 100), RSub(f, R(4000))), R(1000))))

\* getStrain measuring the profile from the neutral axis the wrong way round
getStrain_Reversed(dDist, cDist, ecu) ==
    IF RIsZero(cDist) THEN Raise("ZeroDivisionError")
    ELSE Ok(RMul(ecu, RSub(RDiv(dDist, cDist), R(1))))

getStrain(dDist, cDist, ecu) ==
    IF RIsZero(cDist) THEN Raise("ZeroDivisionError")
    ELSE Ok(RMul(ecu, RSub(R(1), RDiv(dDist, cDist))))

cDist(aDist, betaOne) ==
    IF RIsZero(betaOne) THEN Raise("ZeroDivisionError")
    ELSE Ok(RDiv(aDist, betaOne))

aDist(fc, bw, Astl, fy) ==
    LET denom == RMul(RMul(Frac(85, 100), fc), bw)
    IN  IF RIsZero(denom) THEN Raise("ZeroDivisionError")
        ELSE Ok(RDiv(RMul(fy, Astl), denom))

\* Ec without the ksi-to-psi conversion
Ec_NoRescale(fc, wc) ==
    IF RLt(fc, R(0)) THEN Raise("ValueError")
    ELSE IF wc = None THEN Ok(SScale(R(57000), sqrt(fc)))
    ELSE Ok(SMul(SScale(R(33), SScale(wc, sqrt(wc))), sqrt(fc)))

Ec(fc, wc) ==
    LET f == IF RLt(fc, R(10)) THEN RMul(fc, R(1000)) ELSE fc
    IN  IF RLt(f, R(0)) THEN Raise("ValueError")
        ELSE IF wc = None THEN Ok(SScale(R(57000), sqrt(f)))
        ELSE Ok(SMul(SScale(R(33), SScale(wc, sqrt(wc))), sqrt(f)))

ruptureModulus(fc, lam) ==
    LET f == IF RLt(fc, R(10)) THEN RMul(fc, R(1000)) ELSE fc
    IN  IF RLt(f, R(0)) THEN Raise("ValueError")
        ELSE Ok(SScale(RMul(Frac(75, 10), lam), sqrt(f)))

yieldStrain(fy, Es) ==
    IF RIsZero(Es) THEN Raise("ZeroDivisionError")
    ELSE Ok(RDiv(fy, Es))

\* steelStress yielding at +fy whatever the sign of the strain
steelStress_NoSign(strain, Es, fy) ==
    IF RIsZero(Es) THEN Raise("ZeroDivisionError")
    ELSE LET ey == RDiv(fy, Es)
         IN  IF RIsZero(ey) THEN Raise("ZeroDivisionError")
             ELSE IF RLt(RAbs(RDiv(strain, ey)), R(1))
                  THEN Ok(copysign(RMul(strain, Es), strain))
                  ELSE Ok(fy)

steelStress(strain, Es, fy) ==
    IF RIsZero(Es) THEN Raise("ZeroDivisionError")
    ELSE LET ey == RDiv(fy, Es)
         IN  IF RIsZero(ey) THEN Raise("ZeroDivisionError")
             ELSE IF RLt(RAbs(RDiv(strain, ey)), R(1))
                  THEN Ok(copysign(RMul(strain, Es), strain))
                  ELSE Ok(copysign(fy, strain))

getVc(fc, bw, dDist, lam) ==
    IF RLt(fc, R(0)) THEN Raise("ValueError")
    ELSE Ok(SScale(dDist, SScale(bw, SScale(RMul(R(2), lam), sqrt(fc)))))

\* getVcWithAxial returning Vc without the floor at 0
getVcWithAxial_NoFloor(fc, bw, dDist, Nu, Ag, lam, isSignificantTension) ==
    LET denom == IF isSignificantTension = TRUE THEN 500 ELSE 2000
        dA    == RMul(R(denom), Ag)
    IN  IF RIsZero(dA) THEN Raise("ZeroDivisionError")
        ELSE IF RLt(fc, R(0)) THEN Raise("ValueError")
        ELSE LET factor == RMul(R(2), RAdd(R(1), RDiv(Nu, dA)))
             IN  Ok(SScale(dDist, SScale(bw, SScale(RMul(factor, lam), sqrt(fc)))))

\* getVcWithAxial with the two divisors exchanged
getVcWithAxial_SwappedDenom(fc, bw, dDist, Nu, Ag, lam, isSignificantTension) ==
    LET denom == IF isSignificantTension = TRUE THEN 2000 ELSE 500
        dA    == RMul(R(denom), Ag)
    IN  IF RIsZero(dA) THEN Raise("ZeroDivisionError")
        ELSE IF RLt(fc, R(0)) THEN Raise("ValueError")
        ELSE LET factor == RMul(R(2), RAdd(R(1), RDiv(Nu, dA)))
                 Vc == SScale(dDist, SScale(bw, SScale(RMul(factor, lam), sqrt(fc))))
             IN  Ok(SMax0(Vc))

getVcWithAxial(fc, bw, dDist, Nu, Ag, lam, isSignificantTension) ==
    LET denom == IF isSignificantTension = TRUE THEN 500 ELSE 2000
        dA    == RMul(R(denom), Ag)
    IN  IF RIsZero(dA) THEN Raise("ZeroDivisionError")
        ELSE IF RLt(fc, R(0)) THEN Raise("ValueError")
        ELSE LET factor == RMul(R(2), RAdd(R(1), RDiv(Nu, dA)))
                 Vc == SScale(dDist, SScale(bw, SScale(RMul(factor, lam), sqrt(fc))))
             IN  Ok(SMax0(Vc))

-----------------------------------------------------------------------------
(* The arguments the calls are made with.                                  *)

FcPsiGrid == {R(500 * k) : k \in -1..MaxFcK}

FcKsiGrid == {Frac(j, 2) : j \in -1..MaxKsiJ}

FcRoots ==
    UNION {{R(s * s), Frac(s * s, 10), R(100 * s * s), R(1000 * s * s)} :
           s \in 0..MaxRoot}

FcAny == FcPsiGrid \cup FcKsiGrid \cup FcRoots

FcSqrt == FcRoots \cup {R(-1)}

Widths == {R(0), R(10), R(12)}

Depths == {R(0), R(20), Frac(35, 2)}

Lams == {R(1), Frac(3, 4)}

SteelAreas == {R(0), R(1), Frac(79, 100)}

Yields == {R(DEFAULT_FY), R(40000)}

Moduli == {R(DEFAULT_ES), R(20000000), R(0)}

UnitWeights == {None, R(100), R(144)}

Strains == {Frac(k, 10000) : k \in -MaxStrainK..MaxStrainK}

Dists == {R(k) : k \in -MaxDist..MaxDist}

Ecus == {Frac(k, 1000) : k \in -MaxEcuK..MaxEcuK}

Loads == {R(200000 * k) : k \in -MaxNuK..MaxNuK}

GrossAreas == {R(0), R(240), R(-240)}

ADists == {Frac(k, 2) : k \in 0..MaxAK}

BetaOnes == {R(0), Frac(65, 100), Frac(3, 4), Frac(85, 100)}

-----------------------------------------------------------------------------
(* The state machine.  The functions are pure and share no state, so a     *)
(* behaviour is one call: the initial state holds the function and the     *)
(* arguments of the call, and the function's action runs it.               *)

Beta1Args == {[fc |-> fc] : fc \in FcAny}

CDistArgs == {[aDist |-> a, betaOne |-> b] : a \in ADists, b \in BetaOnes}

ADistArgs ==
    {[fc |-> fc, bw |-> bw, Astl |-> Astl, fy |-> fy] :
        fc \in {R(0), R(3), R(3000), R(4000)}, bw \in Widths,
        Astl \in SteelAreas, fy \in Yields}

EcArgs == {[fc |-> fc, wc |-> wc] : fc \in FcSqrt, wc \in UnitWeights}

RuptureModulusArgs == {[fc |-> fc, lam |-> lam] : fc \in FcSqrt, lam \in Lams}

GetStrainArgs ==
    {[dDist |-> d, cDist |-> c, ecu |-> ecu] :
        d \in Dists, c \in Dists, ecu \in Ecus}

YieldStrainArgs == {[fy |-> fy, Es |-> Es] : fy \in Yields \cup {R(0)}, Es \in Moduli}

SteelStressArgs ==
    {[strain |-> strain, Es |-> Es, fy |-> fy] :
        strain \in Strains, Es \in Moduli, fy \in Yields \cup {R(0)}}

GetVcArgs ==
    {[fc |-> fc, bw |-> bw, dDist |-> d, lam |-> lam] :
        fc \in FcSqrt, bw \in Widths, d \in Depths, lam \in Lams}

GetVcWithAxialArgs ==
    {[fc |-> fc, bw |-> bw, dDist |-> d, Nu |-> Nu, Ag |-> Ag, lam |-> lam,
      isSignificantTension |-> t] :
        fc \in FcSqrt, bw \in Widths, d \in Depths, Nu \in Loads,
        Ag \in GrossAreas, lam \in Lams, t \in BOOLEAN}

Init ==
    /\ ret = Pending
    /\ \/ fn = "beta1" /\ args \in Beta1Args
       \/ fn = "cDist" /\ args \in CDistArgs
       \/ fn = "aDist" /\ args \in ADistArgs
       \/ fn = "Ec" /\ args \in EcArgs
       \/ fn = "ruptureModulus" /\ args \in RuptureModulusArgs
       \/ fn = "getStrain" /\ args \in GetStrainArgs
       \/ fn = "yieldStrain" /\ args \in YieldStrainArgs
       \/ fn = "steelStress" /\ args \in SteelStressArgs
       \/ fn = "getVc" /\ args \in GetVcArgs
       \/ fn = "getVcWithAxial" /\ args \in GetVcWithAxialArgs

CallBeta1 ==
    /\ fn = "beta1" /\ ret.tag = "pending"
    /\ ret' = beta1(args.fc)
    /\ UNCHANGED <<fn, args>>

CallCDist ==
    /\ fn = "cDist" /\ ret.tag = "pending"
    /\ ret' = cDist(args.aDist, args.betaOne)
    /\ UNCHANGED <<fn, args>>

CallADist ==
    /\ fn = "aDist" /\ ret.tag = "pending"
    /\ ret' = aDist(args.fc, args.bw, args.Astl, args.fy)
    /\ UNCHANGED <<fn, args>>

CallEc ==
    /\ fn = "Ec" /\ ret.tag = "pending"
    /\ ret' = Ec(args.fc, args.wc)
    /\ UNCHANGED <<fn, args>>

CallRuptureModulus ==
    /\ fn = "ruptureModulus" /\ ret.tag = "pending"
    /\ ret' = ruptureModulus(args.fc, args.lam)
    /\ UNCHANGED <<fn, args>>

CallGetStrain ==
    /\ fn = "getStrain" /\ ret.tag = "pending"
    /\ ret' = getStrain(args.dDist, args.cDist, args.ecu)
    /\ UNCHANGED <<fn, args>>

CallYieldStrain ==
    /\ fn = "yieldStrain" /\ ret.tag = "pending"
    /\ ret' = yieldStrain(args.fy, args.Es)
    /\ UNCHANGED <<fn, args>>

CallSteelStress ==
    /\ fn = "steelStress" /\ ret.tag = "pending"
    /\ ret' = steelStress(args.strain, args.Es, args.fy)
    /\ UNCHANGED <<fn, args>>

CallGetVc ==
    /\ fn = "getVc" /\ ret.tag = "pending"
    /\ ret' = getVc(args.fc, args.bw, args.dDist, args.lam)
    /\ UNCHANGED <<fn, args>>

CallGetVcWithAxial ==
    /\ fn = "getVcWithAxial" /\ ret.tag = "pending"
    /\ ret' = getVcWithAxial(args.fc, args.bw, args.dDist, args.Nu, args.Ag,
                             args.lam, args.isSignificantTension)
    /\ UNCHANGED <<fn, args>>

Next ==
    \/ CallBeta1
    \/ CallCDist
    \/ CallADist
    \/ CallEc
    \/ CallRuptureModulus
    \/ CallGetStrain
    \/ CallYieldStrain
    \/ CallSteelStress
    \/ CallGetVc
    \/ CallGetVcWithAxial

Spec == Init /\ [][Next]_vars

-----------------------------------------------------------------------------
(* Vocabulary of the properties.                                           *)

\* the call of function f has run
Called(f) == fn = f /\ ret.tag # "pending"

\* the call returned the value v
Returns(v) == ret.tag = "ok" /\ ret.val = v

\* the call raised the exception e
Raises(e) == ret.tag = "raise" /\ ret.exc = e

\* two calls end the same way
Same(r1, r2) ==
    /\ r1.tag = r2.tag
    /\ r1.tag = "ok" => r1.val = r2.val
    /\ r1.tag = "raise" => r1.exc = r2.exc

\* 0 < fc < 10: the strengths the heuristic takes for ksi
IsKsi(fc) == RLt(R(0), fc) /\ RLt(fc, R(10))

Kilo(fc) == RMul(fc, R(1000))

\* the surd r is sqrt(1000) times the surd s
Sqrt1000Times(r, s) == r = SMul(sqrt(R(1000)), s)

ZeroSurd == [q |-> R(0), k |-> 1]

\* Table 22.2.2.4.3 on a strength f in psi
Beta1Line(f) == RSub(Frac(85, 100), RMul(RSub(f, R(4000)), Frac(5, 100000)))

Beta1Table(f) ==
    IF RLe(f, R(4000)) THEN Frac(85, 100)
    ELSE IF RLe(R(8000), f) THEN Frac(65, 100)
    ELSE Beta1Line(f)

\* the divisor k of Eq. (22.5.6.1) / (22.5.7.1)
AxialK(t) == IF t THEN 500 ELSE 2000

\* 1 + Nu/(k*Ag), Ag # 0
AxialFactor(a) == RAdd(R(1), RDiv(a.Nu, RMul(R(AxialK(a.isSignificantTension)), a.Ag)))

-----------------------------------------------------------------------------
(* C1: beta1(fc) for fc >= 10 psi is 0.85 up to 4000, 0.65 from 8000 on     *)
(* and 0.85 - 0.05*(fc - 4000)/1000 in between; beta1(6000) = 0.75; the    *)
(* end branches and the interpolation agree at 4000 and at 8000.           *)
C1_Beta1Piecewise ==
    (Called("beta1") /\ RLe(R(10), args.fc)) =>
        /\ RLe(args.fc, R(4000)) => Returns(Frac(85, 100))
        /\ RLe(R(8000), args.fc) => Returns(Frac(65, 100))
        /\ (RLt(R(4000), args.fc) /\ RLt(args.fc, R(8000))) =>
               Returns(Beta1Line(args.fc))
        /\ args.fc = R(6000) => Returns(Frac(75, 100))
        /\ args.fc \in {R(4000), R(8000)} => Returns(Beta1Line(args.fc))

C1_Witness ==
    /\ Called("beta1")
    /\ args.fc = R(6000)
    /\ Returns(Frac(3, 4))

(* C2: steelStress with Es > 0 and fy > 0 is elastic-perfectly-plastic:    *)
(* +fy / -fy by the sign of the strain once |strain| >= fy/Es, strain*Es   *)
(* below that, hence |result| <= fy; with the defaults strain 0.0025 gives *)
(* 60000 and strain 0.001 gives 29000.                                     *)
C2_SteelStressElasticPlastic ==
    (Called("steelStress") /\ RLt(R(0), args.Es) /\ RLt(R(0), args.fy)) =>
        LET ey      == RDiv(args.fy, args.Es)
            plastic == RLe(ey, RAbs(args.strain))
        IN  /\ (plastic /\ RLt(R(0), args.strain)) => Returns(args.fy)
            /\ (plastic /\ RLt(args.strain, R(0))) => Returns(RNeg(args.fy))
            /\ ~plastic => Returns(RMul(args.strain, args.Es))
            /\ RIsZero(args.strain) => Returns(R(0))
            /\ ret.tag = "ok" /\ RLe(RAbs(ret.val), args.fy)
            /\ (args.fy = R(60000) /\ args.Es = R(29000000)) =>
                   /\ args.strain = Frac(25, 10000) => Returns(R(60000))
                   /\ args.strain = Frac(1, 1000) => Returns(R(29000))

C2_Witness ==
    /\ Called("steelStress")
    /\ args.strain = Frac(-25, 10000)
    /\ args.Es = R(DEFAULT_ES) /\ args.fy = R(DEFAULT_FY)
    /\ Returns(R(-60000))

(* C3: getVcWithAxial never returns a negative strength (fc >= 0,          *)
(* Ag # 0), and returns exactly 0 whenever the unclamped value             *)
(* 2*(1 + Nu/(k*Ag))*lam*sqrt(fc)*bw*dDist is negative.                    *)
C3_VcAxialFloor ==
    (Called("getVcWithAxial") /\ RLe(R(0), args.fc) /\ ~RIsZero(args.Ag)) =>
        LET coeff == RMul(RMul(RMul(R(2), AxialFactor(args)), args.lam),
                          RMul(args.bw, args.dDist))
            unclampedNegative == RLt(R(0), args.fc) /\ RLt(coeff, R(0))
        IN  /\ ret.tag = "ok"
            /\ RLe(R(0), ret.val.q)
            /\ unclampedNegative => Returns(ZeroSurd)

C3_Witness ==
    /\ Called("getVcWithAxial")
    /\ args.fc = R(4000) /\ args.bw = R(12) /\ args.dDist = R(20)
    /\ args.lam = R(1) /\ args.Ag = R(240) /\ args.Nu = R(-600000)
    /\ ~args.isSignificantTension
    /\ Returns(ZeroSurd)

(* C4: aDist returns fy*Astl/(0.85*fc*bw) when fc*bw # 0 and returns 0,    *)
(* without raising, when fc*bw = 0; cDist returns aDist/betaOne when       *)
(* betaOne # 0 and returns 0, without raising, when betaOne = 0.           *)
C4_ZeroGuards ==
    /\ Called("aDist") =>
           IF RIsZero(RMul(args.fc, args.bw))
           THEN Returns(R(0))
           ELSE Returns(RDiv(RMul(args.fy, args.Astl),
                             RMul(Frac(85, 100), RMul(args.fc, args.bw))))
    /\ Called("cDist") =>
           IF RIsZero(args.betaOne)
           THEN Returns(R(0))
           ELSE Returns(RDiv(args.aDist, args.betaOne))

(* C5: getStrain with cDist = 0 returns the sentinel 0 for every dDist and *)
(* ecu and never raises a division-by-zero fault.                          *)
C5_StrainZeroGuard ==
    (Called("getStrain") /\ RIsZero(args.cDist)) => Returns(R(0))

(* C6: for every nonzero cDist and every ecu getStrain is the linear       *)
(* profile ecu*(1 - dDist/cDist): ecu at dDist = 0, 0 at dDist = cDist.    *)
C6_StrainProfile ==
    (Called("getStrain") /\ ~RIsZero(args.cDist)) =>
        /\ ret.tag = "ok"
        /\ RMul(ret.val, args.cDist) = RMul(args.ecu, RSub(args.cDist, args.dDist))
        /\ RIsZero(args.dDist) => Returns(args.ecu)
        /\ args.dDist = args.cDist => Returns(R(0))

C6_Witness ==
    /\ Called("getStrain")
    /\ args.cDist = R(5) /\ args.dDist = R(0) /\ args.ecu = Frac(3, 1000)
    /\ Returns(Frac(3, 1000))

(* C7: compression is positive: with the default ecu, Es and fy and        *)
(* cDist > 0, a layer in the compression zone (0 <= dDist < cDist) has a   *)
(* strictly positive strain and steel stress, and a layer in the tension   *)
(* zone (dDist > cDist) a strictly negative strain and steel stress.       *)
C7_CompressionPositive ==
    (Called("getStrain") /\ args.ecu = DEFAULT_ECU /\ RLt(R(0), args.cDist)) =>
        LET stress == steelStress(ret.val, R(DEFAULT_ES), R(DEFAULT_FY))
        IN  /\ ret.tag = "ok"
            /\ (RLe(R(0), args.dDist) /\ RLt(args.dDist, args.cDist)) =>
                   /\ RLt(R(0), ret.val)
                   /\ stress.tag = "ok" /\ RLt(R(0), stress.val)
            /\ RLt(args.cDist, args.dDist) =>
                   /\ RLt(ret.val, R(0))
                   /\ stress.tag = "ok" /\ RLt(stress.val, R(0))

(* C8: the ksi/psi heuristic is applied uniformly: each of beta1, Ec,       *)
(* ruptureModulus, aDist, getVc and getVcWithAxial gives for 0 < fc < 10   *)
(* the result it gives for 1000*fc, the other arguments being equal.       *)
C8_HeuristicUniform ==
    /\ (Called("beta1") /\ IsKsi(args.fc)) => Same(ret, beta1(Kilo(args.fc)))
    /\ (Called("Ec") /\ IsKsi(args.fc)) => Same(ret, Ec(Kilo(args.fc), args.wc))
    /\ (Called("ruptureModulus") /\ IsKsi(args.fc)) =>
           Same(ret, ruptureModulus(Kilo(args.fc), args.lam))
    /\ (Called("aDist") /\ IsKsi(args.fc)) =>
           Same(ret, aDist(Kilo(args.fc), args.bw, args.Astl, args.fy))
    /\ (Called("getVc") /\ IsKsi(args.fc)) =>
           Same(ret, getVc(Kilo(args.fc), args.bw, args.dDist, args.lam))
    /\ (Called("getVcWithAxial") /\ IsKsi(args.fc)) =>
           Same(ret, getVcWithAxial(Kilo(args.fc), args.bw, args.dDist, args.Nu,
                                    args.Ag, args.lam, args.isSignificantTension))

(* C8 as amended: beta1, Ec and ruptureModulus alone apply the heuristic:  *)
(* each gives for 0 < fc < 10 the result it gives for 1000*fc and uses     *)
(* fc >= 10 as given; aDist, getVc and getVcWithAxial use fc as given      *)
(* whatever its size.  A function that uses fc as given scales with it:    *)
(* sqrt(1000) times the result at 1000*fc for the square-root formulas,    *)
(* 1/1000 of it for aDist.                                                 *)
C8_HeuristicWhereApplied ==
    /\ (Called("beta1") /\ IsKsi(args.fc)) => Same(ret, beta1(Kilo(args.fc)))
    /\ (Called("beta1") /\ RLe(R(10), args.fc)) => Returns(Beta1Table(args.fc))
    /\ (Called("Ec") /\ IsKsi(args.fc)) => Same(ret, Ec(Kilo(args.fc), args.wc))
    /\ (Called("Ec") /\ RLe(R(10), args.fc)) =>
           /\ ret.tag = "ok"
           /\ Sqrt1000Times(Ec(Kilo(args.fc), args.wc).val, ret.val)
    /\ (Called("ruptureModulus") /\ IsKsi(args.fc)) =>
           Same(ret, ruptureModulus(Kilo(args.fc), args.lam))
    /\ (Called("ruptureModulus") /\ RLe(R(10), args.fc)) =>
           /\ ret.tag = "ok"
           /\ Sqrt1000Times(ruptureModulus(Kilo(args.fc), args.lam).val, ret.val)
    /\ (Called("aDist") /\ RLt(R(0), args.fc) /\ ~RIsZero(args.bw)) =>
           /\ ret.tag = "ok"
           /\ Returns(RMul(R(1000),
                  aDist(Kilo(args.fc), args.bw, args.Astl, args.fy).val))
    /\ (Called("getVc") /\ RLt(R(0), args.fc)) =>
           /\ ret.tag = "ok"
           /\ Sqrt1000Times(
                  getVc(Kilo(args.fc), args.bw, args.dDist, args.lam).val, ret.val)
    /\ (Called("getVcWithAxial") /\ RLt(R(0), args.fc) /\ ~RIsZero(args.Ag)) =>
           /\ ret.tag = "ok"
           /\ Sqrt1000Times(
                  getVcWithAxial(Kilo(args.fc), args.bw, args.dDist, args.Nu,
                                 args.Ag, args.lam, args.isSignificantTension).val,
                  ret.val)

C8_Witness ==
    /\ Called("getVc")
    /\ args.fc = R(4) /\ args.bw = R(12) /\ args.dDist = R(20) /\ args.lam = R(1)
    /\ Returns([q |-> R(960), k |-> 1])
    /\ getVc(R(4000), R(12), R(20), R(1)).val = [q |-> R(9600), k |-> 10]

(* C9: for every fc (psi values, ksi values below 10, zero and negative    *)
(* values) beta1 returns a value in [0.65, 0.85].                          *)
C9_Beta1Range ==
    Called("beta1") =>
        /\ ret.tag = "ok"
        /\ RLe(Frac(65, 100), ret.val)
        /\ RLe(ret.val, Frac(85, 100))

C9_Witness ==
    /\ Called("beta1")
    /\ args.fc = Frac(19, 2)
    /\ Returns(Frac(65, 100))

(* C10: for fc >= 0 and Ag # 0 getVcWithAxial equals                       *)
(* max(0, (1 + Nu/(k*Ag)) * getVc(fc, bw, dDist, lam)), k = 500 when       *)
(* isSignificantTension and 2000 otherwise; with Nu = 0 it equals getVc    *)
(* whenever that is non-negative.                                          *)
C10_VcAxialFromVc ==
    (Called("getVcWithAxial") /\ RLe(R(0), args.fc) /\ ~RIsZero(args.Ag)) =>
        LET Vc == getVc(args.fc, args.bw, args.dDist, args.lam)
        IN  /\ Vc.tag = "ok"
            /\ Returns(SMax0(SScale(AxialFactor(args), Vc.val)))
            /\ (RIsZero(args.Nu) /\ ~SIsNeg(Vc.val)) => Returns(Vc.val)

C10_Witness ==
    /\ Called("getVcWithAxial")
    /\ args.fc = R(1600) /\ args.bw = R(12) /\ args.dDist = R(20)
    /\ args.lam = R(1) /\ args.Ag = R(240) /\ args.Nu = R(200000)
    /\ args.isSignificantTension
    /\ Returns([q |-> R(51200), k |-> 1])

=============================================================================
